---- MODULE Spec2Model ----
(***************************************************************************)
(* Combodate (src/src/lib.rs): calendar arithmetic, proportion-of-period   *)
(* calculation and text formatting, modelled as three state machines:      *)
(*   SpecCal    calls of is_leap_year, month_length, year_length           *)
(*   SpecText   calls of pad, make_table, reverse_str, separate,           *)
(*              separate_from_left                                         *)
(*   SpecClock  a clock advancing second by second; the four proportion    *)
(*              functions are evaluated at every instant                   *)
(* A text is a sequence of one-character strings; every character of the   *)
(* model is one byte wide (ASCII), so str::len is Len.                     *)
(***************************************************************************)
EXTENDS Integers, Sequences, FiniteSets, TLC

VARIABLES pc, call, args, ret, now, ticks, shown

vars == <<pc, call, args, ret, now, ticks, shown>>

(***************************************************************************)
(* Bounds of the model.                                                    *)
(***************************************************************************)
\* years of the calendar calls range over -YearSpan..YearSpan
YearSpan == 2400
\* months of the calendar calls range over 0..MaxMonth (month is a u32)
MaxMonth == 15

(***************************************************************************)
(* Calendar math.                                                          *)
(***************************************************************************)

\* Rust's % on i32: the remainder of the division truncated towards zero.
RustRem(a, b) == IF a >= 0 THEN a % b ELSE -((-a) % b)

is_leap_year_no400(year) == RustRem(year, 4) = 0 /\ RustRem(year, 100) # 0

is_leap_year(year) ==
    RustRem(year, 4) = 0 /\ (RustRem(year, 100) # 0 \/ RustRem(year, 400) = 0)

\* the outcome of a call: a panic, or a returned value
Panic == [panic |-> TRUE, val |-> 0]

Returns(v) == [panic |-> FALSE, val |-> v]

month_length_lt7(year, month) ==
    IF month > 12
    THEN Panic
    ELSE IF (month % 2 = 1 /\ month < 7) \/ (month % 2 = 0 /\ month > 7)
         THEN Returns(31)
         ELSE IF month = 2
              THEN IF is_leap_year(year) THEN Returns(29) ELSE Returns(28)
              ELSE Returns(30)

month_length(year, month) ==
    IF month > 12
    THEN Panic
    ELSE IF (month % 2 = 1 /\ month <= 7) \/ (month % 2 = 0 /\ month > 7)
         THEN Returns(31)
         ELSE IF month = 2
              THEN IF is_leap_year(year) THEN Returns(29) ELSE Returns(28)
              ELSE Returns(30)

year_length_365(year) == 365

year_length(year) == IF is_leap_year(year) THEN 366 ELSE 365

(***************************************************************************)
(* The calendar calls: the initial state holds a pending call with its     *)
(* arguments, the action of the called function runs it.                   *)
(***************************************************************************)
Years == (-YearSpan)..YearSpan

Months == 0..MaxMonth

\* the clock plays no part in the calendar and text calls
ClockIdle == now = [year |-> 0, month |-> 0, day |-> 0, sec |-> 0, wd |-> 0]
             /\ ticks = 0
             /\ shown = <<>>

CalCalls ==
    [name : {"is_leap_year", "year_length"}, year : Years, month : {1}]
    \cup [name : {"month_length"}, year : Years, month : Months]

InitCal ==
    /\ pc = "call"
    /\ \E c \in CalCalls : call = c.name /\ args = [year |-> c.year, month |-> c.month]
    /\ ret = FALSE
    /\ ClockIdle

\* what a finished call leaves alone
Finish == pc' = "done" /\ UNCHANGED <<call, args, now, ticks, shown>>

IsLeapYear ==
    /\ pc = "call" /\ call = "is_leap_year"
    /\ ret' = is_leap_year(args.year)
    /\ Finish

MonthLength ==
    /\ pc = "call" /\ call = "month_length"
    /\ ret' = month_length(args.year, args.month)
    /\ Finish

YearLength ==
    /\ pc = "call" /\ call = "year_length"
    /\ ret' = year_length(args.year)
    /\ Finish

NextCal == IsLeapYear \/ MonthLength \/ YearLength

SpecCal == InitCal /\ [][NextCal]_vars

(***************************************************************************)
(* Claims about the calendar calls (checked under SpecCal).                *)
(***************************************************************************)
Called(name) == pc = "done" /\ call = name

\* C1: month_length fails (panics) for every month outside 1..12, month 0
\* included, and never returns a length for such a month.
C1_InvalidMonthPanics ==
    (Called("month_length") /\ args.month \notin 1..12) => ret.panic

RECURSIVE SumMonthLengths(_, _)
SumMonthLengths(year, m) ==
    IF m = 0 THEN 0 ELSE month_length(year, m).val + SumMonthLengths(year, m - 1)

GregorianLength(leap, month) ==
    IF month \in {1, 3, 5, 7, 8, 10, 12} THEN 31
    ELSE IF month \in {4, 6, 9, 11} THEN 30
    ELSE IF leap THEN 29 ELSE 28

\* C2: for months 1..12 month_length is 31, 30 or 28/29 as in the Gregorian
\* calendar, and the twelve month lengths of a year sum to year_length(year),
\* which is 366 in a leap year and 365 otherwise.
C2_MonthLengthsSumToYear ==
    /\ (Called("month_length") /\ args.month \in 1..12) =>
           ret = Returns(GregorianLength(is_leap_year(args.year), args.month))
    /\ Called("year_length") =>
           /\ ret = SumMonthLengths(args.year, 12)
           /\ ret = IF is_leap_year(args.year) THEN 366 ELSE 365

C2_Witness ==
    Called("month_length") /\ args.year = 2000 /\ args.month = 2 /\ ret.val = 29

\* d divides n, by the floored modulus of the integers
Divides(d, n) == n % d = 0

\* C3: for every integer year, zero and negative years included,
\* is_leap_year(year) is true exactly when year is divisible by 4 and not by
\* 100, or divisible by 400; 1600, 2000, 2004 are leap and 1700, 1800, 1900,
\* 2100, 1997 are not.
C3_LeapYearRule ==
    Called("is_leap_year") =>
        /\ ret = (Divides(4, args.year)
                    /\ (~Divides(100, args.year) \/ Divides(400, args.year)))
        /\ args.year \in {1600, 2000, 2004} => ret
        /\ args.year \in {1700, 1800, 1900, 2100, 1997} => ~ret

C3_Witness == Called("is_leap_year") /\ args.year = -400 /\ ret

(***************************************************************************)
(* String formatter.                                                       *)
(***************************************************************************)
\* texts are built from Alphabet and have at most MaxLen characters
MaxLen == 7
\* group sizes (places) range over 1..MaxPlaces
MaxPlaces == 4
\* pad widths range over 0..MaxWidth
MaxWidth == 9
\* a table has at most MaxRows rows, a cell at most MaxCellLen characters
MaxRows == 3
MaxCellLen == 2

pad_always_right(x, k, left, pad_char) ==
    IF Len(x) < k
    THEN x \o [i \in 1..(k - Len(x)) |-> pad_char]
    ELSE x

pad(x, k, left, pad_char) ==
    IF Len(x) < k
    THEN LET pad_str == [i \in 1..(k - Len(x)) |-> pad_char]
         IN  IF left THEN pad_str \o x ELSE x \o pad_str
    ELSE x

\* the first loop of make_table: the running maxima of both columns
RECURSIVE max_len(_, _, _)
max_len(rows, i, acc) ==
    IF i > Len(rows)
    THEN acc
    ELSE LET k == rows[i]
             m0 == IF Len(k[1]) > acc[1] THEN Len(k[1]) ELSE acc[1]
             m1 == IF Len(k[2]) > acc[2] THEN Len(k[2]) ELSE acc[2]
         IN  max_len(rows, i + 1, <<m0, m1>>)

\* the second loop of make_table: one formatted line per row
RECURSIVE table_lines(_, _, _, _)
table_lines(rows, i, m, out_str) ==
    IF i > Len(rows)
    THEN out_str
    ELSE LET k == rows[i]
         IN  table_lines(rows, i + 1, m,
                 out_str \o pad(k[1], m[1], FALSE, " ") \o <<" ">>
                         \o pad(k[2], m[2], TRUE, " ") \o <<"\n">>)

make_table_first_row_width(rows) ==
    table_lines(rows, 1, max_len(SubSeq(rows, 1, 1), 1, <<0, 0>>), <<>>)

make_table(rows) == table_lines(rows, 1, max_len(rows, 1, <<0, 0>>), <<>>)

\* reverse_str: pop the last character of get_from and push it on out_str
RECURSIVE reverse_pop(_, _)
reverse_pop(get_from, out_str) ==
    IF Len(get_from) = 0
    THEN out_str
    ELSE reverse_pop(SubSeq(get_from, 1, Len(get_from) - 1),
                     Append(out_str, get_from[Len(get_from)]))

reverse_str(x) == reverse_pop(x, <<>>)

\* the loop of separate, for k in 0..parts
RECURSIVE separate_parts(_, _, _, _, _, _, _)
separate_parts(x, places, sep, rem, parts, k, out_str) ==
    IF k >= parts
    THEN out_str
    ELSE LET pushed == out_str \o SubSeq(x, rem + k * places + 1, rem + (k + 1) * places)
         IN  separate_parts(x, places, sep, rem, parts, k + 1,
                 IF k < parts - 1 THEN Append(pushed, sep) ELSE pushed)

separate(x, places, sep) ==
    LET ell == Len(x)
        rem == ell % places
        parts == ell \div places
        out_str == IF rem > 0 THEN Append(SubSeq(x, 1, rem), sep) ELSE <<>>
    IN  separate_parts(x, places, sep, rem, parts, 0, out_str)

separate_from_left(x, places, sep) == reverse_str(separate(reverse_str(x), places, sep))

(***************************************************************************)
(* The formatter calls.                                                    *)
(***************************************************************************)
Alphabet == {"a", "b"}

Seps == {" ", "x"}

PadChars == {"o", " "}

Seqs(S, n) == UNION {[1..m -> S] : m \in 0..n}

\* the texts of the tests of lib.rs
TestTexts ==
    { <<"1", "2", "3", "4", "5", "6", "7", "8", "9", "0">>,
      <<"a", "a", "a", "b", "b", "b", "c", "c", "c", "d", "d">>,
      <<"a", "a", "a", "b", "b", "b", "c", "c", "c", "d", "d", "d">>,
      <<"h", "h", "h", "h">> }

Texts == Seqs(Alphabet, MaxLen) \cup TestTexts

\* labels are made of "l", values of "v": a cell is known by its length
Cells(c) == Seqs({c}, MaxCellLen)

\* the rows of tests::table_test
TestRows ==
    << << <<"s", "p", "a", "c", "e", "s", "!">>, <<"p", "l", "a", "c", "e", "s">> >>,
       << <<"v", "a", "s", "t">>, <<"s", "p", "a", "c", "e">> >>,
       << <<"t", "o">>, <<"b", "e">> >>,
       << <<"p", "a", "d", "d", "e", "d">>, <<"w", "i", "t", "h">> >>,
       << <<"s", "p", "a", "c", "e", "s">>, <<"!">> >> >>

Tables == Seqs(Cells("l") \X Cells("v"), MaxRows) \cup {TestRows}

TextCalls ==
    [name : {"reverse_str"}, x : Texts]
    \cup [name : {"separate", "separate_from_left"}, x : Texts,
          places : 1..MaxPlaces, sep : Seps]
    \cup [name : {"pad"}, x : Texts, k : 0..MaxWidth, left : BOOLEAN,
          pad_char : PadChars]
    \cup [name : {"make_table"}, rows : Tables]

InitText ==
    /\ pc = "call"
    /\ \E c \in TextCalls : call = c.name /\ args = c
    /\ ret = <<>>
    /\ ClockIdle

Pad ==
    /\ pc = "call" /\ call = "pad"
    /\ ret' = pad(args.x, args.k, args.left, args.pad_char)
    /\ Finish

MakeTable ==
    /\ pc = "call" /\ call = "make_table"
    /\ ret' = make_table(args.rows)
    /\ Finish

ReverseStr ==
    /\ pc = "call" /\ call = "reverse_str"
    /\ ret' = reverse_str(args.x)
    /\ Finish

Separate ==
    /\ pc = "call" /\ call = "separate"
    /\ ret' = separate(args.x, args.places, args.sep)
    /\ Finish

SeparateFromLeft ==
    /\ pc = "call" /\ call = "separate_from_left"
    /\ ret' = separate_from_left(args.x, args.places, args.sep)
    /\ Finish

NextText == Pad \/ MakeTable \/ ReverseStr \/ Separate \/ SeparateFromLeft

SpecText == InitText /\ [][NextText]_vars

(***************************************************************************)
(* Claims about the formatter calls (checked under SpecText).              *)
(***************************************************************************)
\* r without its separators
Stripped(r, sep) == LET NotSep(c) == c # sep IN SelectSeq(r, NotSep)

\* r is x cut into groups of g characters counted from the right end: every
\* (g+1)-th character from the right is a separator, and no other
GroupedFromRight(x, g, sep, r) ==
    /\ Stripped(r, sep) = x
    /\ \A i \in 1..Len(r) : (r[i] = sep) <=> ((Len(r) + 1 - i) % (g + 1) = 0)
    /\ r # <<>> => (r[1] # sep /\ r[Len(r)] # sep)

\* the same, counted from the left end
GroupedFromLeft(x, g, sep, r) ==
    /\ Stripped(r, sep) = x
    /\ \A i \in 1..Len(r) : (r[i] = sep) <=> (i % (g + 1) = 0)
    /\ r # <<>> => (r[1] # sep /\ r[Len(r)] # sep)

\* C6: for every text without the separator and every group size >= 1,
\* separate returns the text cut into groups counted from the right: all
\* groups but the leftmost have group_size characters, the leftmost has
\* 1..group_size, groups are joined by one separator, the result neither
\* starts nor ends with the separator, and the characters keep their order.
C6_SeparateGroupsFromRight ==
    Called("separate") => GroupedFromRight(args.x, args.places, args.sep, ret)

\* C7: for every text without the separator and every group size >= 1,
\* separate_from_left returns the text cut into groups counted from the left:
\* all groups but the rightmost have group_size characters, the rightmost has
\* 1..group_size, with no leading or trailing separator, and stripping the
\* separators gives back the text.
C7_SeparateGroupsFromLeft ==
    Called("separate_from_left") => GroupedFromLeft(args.x, args.places, args.sep, ret)

Max(a, b) == IF a >= b THEN a ELSE b

SetMax(S) == CHOOSE m \in S : \A e \in S : e <= m

\* C9: make_table emits one newline-terminated line per row, in input order;
\* with L and V the greatest label and value lengths, line i is label_i,
\* L - len(label_i) spaces, one space, V - len(value_i) spaces, value_i; every
\* line is L + 1 + V long, nothing is truncated, no rows give the empty text.
C9_TableLines ==
    Called("make_table") =>
        LET rows == args.rows
            n == Len(args.rows)
            L == SetMax({0} \cup {Len(rows[i][1]) : i \in 1..n})
            V == SetMax({0} \cup {Len(rows[i][2]) : i \in 1..n})
            W == L + 1 + V + 1
        IN  /\ Len(ret) = n * W
            /\ n = 0 => ret = <<>>
            /\ \A i \in 1..n :
                   LET line == SubSeq(ret, (i - 1) * W + 1, i * W)
                       lab == rows[i][1]
                       val == rows[i][2]
                   IN  /\ SubSeq(line, 1, Len(lab)) = lab
                       /\ \A j \in (Len(lab) + 1)..(L + 1) : line[j] = " "
                       /\ \A j \in (L + 2)..(L + 1 + V - Len(val)) : line[j] = " "
                       /\ SubSeq(line, W - Len(val), W - 1) = val
                       /\ line[W] = "\n"

C9_Witness == Called("make_table") /\ args.rows = TestRows /\ Len(ret) = 75

(***************************************************************************)
(* Proportion calculator.  A timestamp is a local calendar date, the       *)
(* seconds since local midnight, and the weekday counted from Monday.      *)
(***************************************************************************)
\* the clock advances at most MaxTicks seconds from where it starts
MaxTicks == 2

Digit == <<"0", "1", "2", "3", "4", "5", "6", "7", "8", "9">>

\* format!("{}", n) of an unsigned integer
RECURSIVE Decimal(_)
Decimal(n) ==
    IF n < 10 THEN <<Digit[n + 1]>> ELSE Append(Decimal(n \div 10), Digit[(n % 10) + 1])

\* format!("{:05}", p): at least five digits, zero-filled on the left
Format05(p) == pad(Decimal(p), 5, TRUE, "0")

\* format!("0.{}", separate_from_left(&format!("{:05}", p), 3, ' '))
fraction(p) == <<"0", ".">> \o separate_from_left(Format05(p), 3, " ")

num_seconds_from_midnight(x) == x.sec

num_days_from_sunday(x) == (x.wd + 1) % 7

num_days_from_monday(x) == x.wd

day_of_month(x) == x.day

day0(x) == x.day - 1

RECURSIVE days_before_month(_, _)
days_before_month(year, month) ==
    IF month = 1
    THEN 0
    ELSE month_length(year, month - 1).val + days_before_month(year, month - 1)

ordinal0(x) == days_before_month(x.year, x.month) + x.day - 1

\* ((s as u128) * 100_000) / d.  The product does not fit the 32-bit integers of
\* the model checker, so the quotient is formed by long division: the integer
\* part of s / d, then five decimal digits.  s is a u32 sum of at most
\* 86399 + 365 * 86400, which does not wrap.
RECURSIVE long_division(_, _, _, _)
long_division(r, d, digits, q) ==
    IF digits = 0
    THEN q
    ELSE long_division((r * 10) % d, d, digits - 1, q * 10 + ((r * 10) \div d))

scaled(s, d) == long_division(s % d, d, 5, s \div d)

proportion_day(x) ==
    LET s == num_seconds_from_midnight(x)
        p == scaled(s, 86400)
    IN  fraction(p)

proportion_week(x) ==
    LET s == num_seconds_from_midnight(x) + num_days_from_monday(x) * 86400
        p == scaled(s, 7 * 86400)
    IN  fraction(p)

proportion_month_day(x) ==
    LET s == num_seconds_from_midnight(x) + day_of_month(x) * 86400
        p == scaled(s, month_length(x.year, x.month).val * 86400)
    IN  fraction(p)

proportion_month(x) ==
    LET s == num_seconds_from_midnight(x) + day0(x) * 86400
        p == scaled(s, month_length(x.year, x.month).val * 86400)
    IN  fraction(p)

proportion_year(x) ==
    LET s == num_seconds_from_midnight(x) + ordinal0(x) * 86400
        p == scaled(s, year_length(x.year) * 86400)
    IN  fraction(p)

\* the four proportion rows of make_combodate_table
proportions(x) ==
    [day |-> proportion_day(x), week |-> proportion_week(x),
     month |-> proportion_month(x), year |-> proportion_year(x)]

(***************************************************************************)
(* The clock: it starts at any second of StartSeconds of any day of the    *)
(* years ClockYears and advances one second at a time under a fixed UTC    *)
(* offset; the proportions are evaluated at every instant.                 *)
(***************************************************************************)
ClockYears == {1989, 1995, 1996, 2000, 2100}

StartSeconds == {0, 1, 21600, 43200, 86398, 86399}

\* days from 0001-01-01, a Monday of the proleptic Gregorian calendar
DayNumber(year, month, day) ==
    LET y == year - 1
    IN  365 * y + (y \div 4) - (y \div 100) + (y \div 400)
        + days_before_month(year, month) + day - 1

Timestamp(year, month, day, sec) ==
    [year |-> year, month |-> month, day |-> day, sec |-> sec,
     wd |-> DayNumber(year, month, day) % 7]

StartTimes ==
    UNION { UNION { { Timestamp(y, m, d, sec) :
                        d \in 1..month_length(y, m).val, sec \in StartSeconds }
                    : m \in 1..12 }
            : y \in ClockYears }

NextSecond(x) ==
    IF x.sec < 86399
    THEN [x EXCEPT !.sec = x.sec + 1]
    ELSE LET wd == (x.wd + 1) % 7
         IN  IF x.day < month_length(x.year, x.month).val
             THEN [x EXCEPT !.sec = 0, !.wd = wd, !.day = x.day + 1]
             ELSE IF x.month < 12
                  THEN [x EXCEPT !.sec = 0, !.wd = wd, !.day = 1, !.month = x.month + 1]
                  ELSE [x EXCEPT !.sec = 0, !.wd = wd, !.day = 1, !.month = 1,
                                 !.year = x.year + 1]

InitClock ==
    /\ pc = "clock" /\ call = "none" /\ args = <<>> /\ ret = <<>>
    /\ now \in StartTimes
    /\ ticks = 0
    /\ shown = proportions(now)

Tick ==
    /\ pc = "clock"
    /\ ticks < MaxTicks
    /\ now' = NextSecond(now)
    /\ ticks' = ticks + 1
    /\ shown' = proportions(now')
    /\ UNCHANGED <<pc, call, args, ret>>

NextClock == Tick

SpecClock == InitClock /\ [][NextClock]_vars

(***************************************************************************)
(* Claims about the proportions (checked under SpecClock).                 *)
(***************************************************************************)
Periods == {"day", "week", "month", "year"}

DigitSet == {Digit[i] : i \in 1..10}

DigitValue(c) == CHOOSE v \in 0..9 : Digit[v + 1] = c

\* "0." + 3 digits + one space + 2 digits
FractionShaped(str) ==
    /\ Len(str) = 8
    /\ str[1] = "0" /\ str[2] = "." /\ str[6] = " "
    /\ \A i \in {3, 4, 5, 7, 8} : str[i] \in DigitSet

\* the five digits of a displayed fraction, read back as an integer
Parsed(str) ==
    10000 * DigitValue(str[3]) + 1000 * DigitValue(str[4]) + 100 * DigitValue(str[5])
    + 10 * DigitValue(str[7]) + DigitValue(str[8])

\* C4: for every valid timestamp each of the four proportions is a text of
\* the shape "0." + 3 digits + space + 2 digits whose scaled value is an
\* integer in 0..99999: the fraction is in [0, 1) and never reaches 1, not
\* even in the last second of a day, week, month or year.
C4_FractionShapeBelowOne ==
    pc = "clock" =>
        \A P \in Periods :
            /\ FractionShaped(shown[P])
            /\ Parsed(shown[P]) \in 0..99999
            /\ shown[P] = fraction(Parsed(shown[P]))

\* the last second of a leap year: of a day, a week (a Sunday), a month, a year
C4_Witness ==
    /\ pc = "clock"
    /\ ticks = 1
    /\ now = [year |-> 2000, month |-> 12, day |-> 31, sec |-> 86399, wd |-> 6]
    /\ \A P \in {"week", "month", "year"} :
           shown[P] = <<"0", ".", "9", "9", "9", " ", "9", "9">>

\* whole days of the period that lie before the day of x
DaysElapsed(P, x) ==
    IF P = "day" THEN 0
    ELSE IF P = "week" THEN DayNumber(x.year, x.month, x.day) % 7
    ELSE IF P = "month" THEN x.day - 1
    ELSE DayNumber(x.year, x.month, x.day) - DayNumber(x.year, 1, 1)

\* the length of the period of x in days
PeriodDays(P, x) ==
    IF P = "day" THEN 1
    ELSE IF P = "week" THEN 7
    ELSE IF P = "month" THEN month_length(x.year, x.month).val
    ELSE year_length(x.year)

Elapsed(P, x) == x.sec + 86400 * DaysElapsed(P, x)

\* a * b as <<high, low>> with value high * 1000 + low, for products beyond
\* 32 bits
Wide(a, b) ==
    LET ah == a \div 1000
        al == a % 1000
    IN  <<ah * b + ((al * b) \div 1000), (al * b) % 1000>>

WideLeq(u, v) == u[1] < v[1] \/ (u[1] = v[1] /\ u[2] <= v[2])

WideLess(u, v) == u[1] < v[1] \/ (u[1] = v[1] /\ u[2] < v[2])

\* p = floor(100000 * e / (86400 * days)), stated as
\* p * 86400 * days <= 100000 * e < (p + 1) * 86400 * days with both sides
\* divided by 800 (86400 = 800 * 108, 100000 = 800 * 125)
IsFloor(p, e, days) ==
    /\ WideLeq(Wide(p, 108 * days), Wide(e, 125))
    /\ WideLess(Wide(e, 125), Wide(p + 1, 108 * days))

Text8(c1, c2, c3, c4, c5) == <<"0", ".", c1, c2, c3, " ", c4, c5>>

\* C5: for every valid timestamp and period the 5-digit value equals
\* floor(100000 * elapsed / denominator), truncated and never rounded, with
\* elapsed = seconds since midnight + 86400 * k (k = 0, days since Monday,
\* day of month - 1, day of year - 1) and denominator = 86400 * (1, 7,
\* month_length, year_length); noon is 0.500 00 of the day, Thursday noon
\* 0.500 00 of the week, Feb 8 00:00 of a 28-day February 0.250 00 of the
\* month, Apr 2 06:00 of a 365-day year 0.250 00 of the year.
C5_TruncatedQuotient ==
    pc = "clock" =>
        /\ \A P \in Periods :
               IsFloor(Parsed(shown[P]), Elapsed(P, now), PeriodDays(P, now))
        /\ now.sec = 43200 => shown.day = Text8("5", "0", "0", "0", "0")
        /\ (now.year = 1995 /\ now.month = 7 /\ now.day = 13 /\ now.sec = 43200)
               => shown.week = Text8("5", "0", "0", "0", "0")
        /\ (now.year = 1995 /\ now.month = 2 /\ now.day = 8 /\ now.sec = 0)
               => shown.month = Text8("2", "5", "0", "0", "0")
        /\ (now.year = 1989 /\ now.month = 4 /\ now.day = 2 /\ now.sec = 21600)
               => shown.year = Text8("2", "5", "0", "0", "0")
        /\ (now.year = 2000 /\ now.month = 4 /\ now.day = 1 /\ now.sec = 43200)
               => shown.year = Text8("2", "5", "0", "0", "0")

\* a value that is not a multiple of 0.00001 and is cut, not rounded up:
\* 86399 / 86400 is 0.99998 8..., displayed as 0.999 98
C5_Witness ==
    /\ pc = "clock"
    /\ now.year = 1995 /\ now.month = 7 /\ now.day = 13 /\ now.sec = 86399
    /\ shown.day = Text8("9", "9", "9", "9", "8")
    /\ ticks = 1

SamePeriod(P, x, y) ==
    IF P = "day" THEN x.year = y.year /\ x.month = y.month /\ x.day = y.day
    ELSE IF P = "week"
         THEN DayNumber(x.year, x.month, x.day) \div 7
              = DayNumber(y.year, y.month, y.day) \div 7
    ELSE IF P = "month" THEN x.year = y.year /\ x.month = y.month
    ELSE x.year = y.year

\* C10: as the clock advances one second at a time, each proportion never
\* decreases while the instant stays in the same day, Monday-start week,
\* month or year, and is exactly "0.000 00" at the first second of a new
\* period; it drops only at a period boundary.
C10_MonotoneWithinPeriod ==
    [][\A P \in Periods :
           IF SamePeriod(P, now, now')
           THEN Parsed(shown'[P]) >= Parsed(shown[P])
           ELSE shown'[P] = Text8("0", "0", "0", "0", "0")]_vars

\* the clock has ticked from Sunday 1995-12-31 23:59:59 into Monday 1996-01-01
C10_Witness ==
    /\ pc = "clock" /\ ticks > 0
    /\ now = [year |-> 1996, month |-> 1, day |-> 1, sec |-> 0, wd |-> 0]
    /\ \A P \in Periods : shown[P] = Text8("0", "0", "0", "0", "0")

====
